---------------------------- MODULE Spec2Model ----------------------------
(***************************************************************************)
(* A model of the two controllers of the repository:                       *)
(*                                                                         *)
(*   - real_controller.cpp: the ROS 2 node RealController (the teleoperation*)
(*     fusion loop), its callbacks and the free functions it calls;        *)
(*   - my_controller.cpp: the ros2_control controller MyController (the    *)
(*     joint torque loop) and its lifecycle callbacks.                     *)
(*                                                                         *)
(* Numbers.  The programs compute with doubles; the model computes with    *)
(* exact rationals held as scaled integers:                                *)
(*   - a Cartesian coordinate is an integer number of 1/PosUnit metres;    *)
(*   - a joint angle of the fusion node is an integer number of            *)
(*     1/(10^4 * max_count) radians, so that the blend                     *)
(*     w*ik + (1-w)*curr with w = count/max_count is exact;                *)
(*   - the smoothing weight w is an integer number of 1/WOne.              *)
(* Where the rounding of the doubles decides the outcome (the blend checked *)
(* against the joint limits), the arithmetic is IEEE-754 binary64 itself,   *)
(* with round-to-nearest-even, on mantissas held as multi-word naturals.    *)
(* Sequences are 1-based: index i of the model is index i-1 of the code.   *)
(***************************************************************************)
EXTENDS Integers, Sequences, FiniteSets, TLC

VARIABLES
  \* ---- process real_controller (class RealController and its globals)
  proc,               \* "spinning" | "shutdown" (rclcpp::shutdown() was called)
                      \* | "terminated" (an exception left a callback)
  control,            \* RealController::control
  curr_joint_vals,    \* RealController::curr_joint_vals
  ik_joint_vals,      \* RealController::ik_joint_vals
  message_joint_vals, \* RealController::message_joint_vals
  human_offset,       \* RealController::human_offset
  robot_offset,       \* RealController::robot_offset
  count,              \* RealController::count
  w,                  \* RealController::w
  tcp_pos,            \* global tcp_pos
  orientation,        \* global orientation
  got_orientation,    \* global got_orientation
  panda_tree,         \* global panda_tree: "loaded" | "empty"
  panda_chain,        \* global panda_chain: "resolved" | "empty"
  tcp_pos_goal,       \* compute_ik's local goal frame of its last call
  limits_result,      \* <<b>>: the last within_limits call returned b; <<>>: no call yet
  controller_pub,     \* the messages handed to controller_pub_->publish, in order
  tcp_pos_msg,        \* <<m>>: the last message handed to tcp_pos_pub_->publish; <<>>: none yet
  \* ---- history of the fusion node (not program state)
  sensor_seen,        \* a joint_states message has been delivered
  idle_ticks,         \* controller_publisher calls made with control == false
  active_ticks,       \* controller_publisher calls made with control == true
  ik_calls,           \* compute_ik calls made
  last_joint_states,  \* the position array of the last joint_states message (<<>>: none yet)
  last_falcon_pos,    \* the last falcon_position message (<<>>: none yet)
  overwrites,         \* the topics on which a message has replaced another one's value
  fuse_calls,         \* evaluations of the fusion formula made on its own
  \* ---- process my_controller (class MyController)
  lc,                 \* lifecycle state: "constructed" | "unconfigured" | "inactive" | "active"
  arm_id_,            \* MyController::arm_id_
  k_gains_,           \* MyController::k_gains_
  d_gains_,           \* MyController::d_gains_
  dq_filtered_,       \* MyController::dq_filtered_
  q_,                 \* MyController::q_
  dq_,                \* MyController::dq_
  q_goal_,            \* MyController::q_goal_
  start_time_,        \* MyController::start_time_
  motion_generator_,  \* MyController::motion_generator_ (<<>>: null)
  command_interfaces_,\* the values of the 7 effort command interfaces
  now,                \* the node clock, as last read by get_node()->now()
  k_gains,            \* on_configure's local k_gains of its last call
  d_gains,            \* on_configure's local d_gains of its last call
  configure_return,   \* <<r>>: the last on_configure returned r; <<>>: no call yet
  q_desired,          \* update's local q_desired of its last call
  finished,           \* update's local finished of its last call
  poll_log,           \* the positions update's subscriber section printed last
  update_return,      \* <<r>>: the last update returned r; <<>>: no call yet
  \* ---- history of the torque controller (not program state)
  tick_done,          \* update has run since the last on_activate
  finished_ticks,     \* updates since the last on_activate that saw finished (2: two or more)
  filter_steps        \* updates of dq_filtered_ since on_configure

teleopVars == <<proc, control, curr_joint_vals, ik_joint_vals, message_joint_vals,
                human_offset, robot_offset, count, w, tcp_pos, orientation,
                got_orientation, panda_tree, panda_chain, tcp_pos_goal,
                limits_result, controller_pub, tcp_pos_msg, sensor_seen, idle_ticks,
                active_ticks, ik_calls, last_joint_states, last_falcon_pos,
                overwrites, fuse_calls>>

\* What the callbacks of the node never assign: the kinematic tree and chain, set
\* by the constructor.
kinematicVars == <<panda_tree, panda_chain>>

\* History that the timer callbacks leave alone.
inputHistory == <<last_joint_states, last_falcon_pos, overwrites, fuse_calls>>

torqueVars == <<lc, arm_id_, k_gains_, d_gains_, dq_filtered_, q_, dq_, q_goal_,
                start_time_, motion_generator_, command_interfaces_, now, k_gains,
                d_gains, configure_return, q_desired, finished, poll_log,
                update_return, tick_done, finished_ticks, filter_steps>>

vars == <<teleopVars, torqueVars>>

-----------------------------------------------------------------------------
(* Units *)

\* Cartesian coordinates: units per metre (the source gives four decimals).
PosUnit == 10^4

-----------------------------------------------------------------------------
(* Constants of real_controller.cpp *)

n_joints == 7

control_freq == 20

latency == 2

max_count == control_freq * 10

\* mapping_ratio = 1.5, as a fraction
mapping_ratio_num == 3
mapping_ratio_den == 2

\* ax = ay = az = 1.0 (the share of the human input, in [0, 1])
ax == 1
ay == 1
az == 1

\* One, in the unit of the smoothing weight w.
WOne == max_count

\* A joint angle given in 1/10^4 rad (the source gives four decimals), in the
\* model's joint unit.
Rad4(x) == x * max_count

lower_joint_limits ==
  <<Rad4(-28973), Rad4(-17628), Rad4(-28973), Rad4(-30718),
    Rad4(-28973), Rad4(-175), Rad4(-28973)>>

upper_joint_limits ==
  <<Rad4(28973), Rad4(17628), Rad4(28973), Rad4(-698),
    Rad4(28973), Rad4(37525), Rad4(28973)>>

origin == <<4559, 0, 3346>>

tcp_pos_init == <<3069, 0, 4853>>

Zero3 == <<0, 0, 0>>
Zero7 == <<0, 0, 0, 0, 0, 0, 0>>

\* KDL::Rotation's default constructor: the identity.
IdentityRotation == [fk_of |-> <<>>]

\* The rotation part of ChainFkSolverPos_recursive::JntToCart(q): the solver is
\* KDL's; a rotation is named by the joint vector it is the forward kinematics of.
JntToCart_M(q) == [fk_of |-> q]

-----------------------------------------------------------------------------
(* Bounds and inputs of the fusion node *)

MaxIdleTicks == 2
MaxActiveTicks == 3

Min(a, b) == IF a < b THEN a ELSE b
Max(a, b) == IF a < b THEN b ELSE a

\* Joint vectors: the Panda's home posture, the upper limits,
\* the lower limits, and all zeros (joint 4 above its upper limit).
HomeJoints == <<Rad4(0), Rad4(-7854), Rad4(0), Rad4(-23562), Rad4(0), Rad4(15708), Rad4(7854)>>
JointVecs == {HomeJoints, upper_joint_limits, lower_joint_limits, Zero7}

\* joint_states messages: position arrays of at least 7 entries (spec, section 6).
SensorMsgs == JointVecs \cup {HomeJoints \o <<Rad4(400)>>}

\* falcon_position messages: (x, y, z) in centimetres.
FalconMsgs == {<<0, 0, 0>>, <<2, -4, 6>>, <<-5, 0, 1>>}

\* What ChainIkSolverPos_NR::CartToJnt may leave in jnt_pos_goal: the solver is
\* KDL's and its convergence is not checked, so any joint vector.
IkResults == {HomeJoints, upper_joint_limits, Zero7,
              <<Rad4(100), Rad4(-7000), Rad4(200), Rad4(-20000), Rad4(0), Rad4(40000), Rad4(0)>>}


\* Cartesian targets handed to compute_ik.
TcpTargets == {tcp_pos_init, origin, <<4859, -600, 4246>>}

MaxIkCalls == 3

\* Joint vectors around the limits: each joint one unit below its lower limit, on
\* it, on its upper limit, or one unit above it.
ProbeValues(i) ==
  {lower_joint_limits[i] - 1, lower_joint_limits[i],
   upper_joint_limits[i], upper_joint_limits[i] + 1}

RECURSIVE ProbesUpTo(_)
ProbesUpTo(n) ==
  IF n = 0 THEN {<<>>}
  ELSE {Append(v, x) : v \in ProbesUpTo(n - 1), x \in ProbeValues(n)}

LimitProbes == ProbesUpTo(n_joints)

-----------------------------------------------------------------------------
(* Free functions of real_controller.cpp *)

\* get_robot_control(t, vals): for (i = 0; i < n_joints; i++) vals.at(i) = t.
\* vals.at(i) throws std::out_of_range at the first i >= vals.size(); the entries
\* before it have been written by then.
get_robot_control(t, vals) ==
  [vals  |-> [i \in 1..Len(vals) |-> IF i <= n_joints THEN t ELSE vals[i]],
   threw |-> Len(vals) < n_joints]

\* within_limits: the loop over the joints, returning false at the first joint
\* above its upper or below its lower limit.
RECURSIVE within_limits_from(_, _)
within_limits_from(vals, i) ==
  IF i > n_joints THEN TRUE
  ELSE IF vals[i] > upper_joint_limits[i] \/ vals[i] < lower_joint_limits[i] THEN FALSE
  ELSE within_limits_from(vals, i + 1)

\* within_limits with >= and <= for > and <: a value on a limit is rejected.
RECURSIVE within_limits_strict_from(_, _)
within_limits_strict_from(vals, i) ==
  IF i > n_joints THEN TRUE
  ELSE IF vals[i] >= upper_joint_limits[i] \/ vals[i] <= lower_joint_limits[i] THEN FALSE
  ELSE within_limits_strict_from(vals, i + 1)

within_limits_strict(vals) == within_limits_strict_from(vals, 1)

within_limits(vals) == within_limits_from(vals, 1)

\* compute_ik without the test of got_orientation: every call captures.
compute_ik_recapture(desired_tcp_pos, curr_vals, jnt_pos_goal, orient, got) ==
  LET jnt_pos_start == SubSeq(curr_vals, 1, n_joints)
      M == JntToCart_M(jnt_pos_start)
  IN  [orientation     |-> M,
       got_orientation |-> TRUE,
       tcp_pos_goal    |-> [M |-> M,
                            p |-> <<desired_tcp_pos[1], desired_tcp_pos[2],
                                    desired_tcp_pos[3]>>],
       res_vals        |-> SubSeq(jnt_pos_goal, 1, n_joints)]

\* compute_ik(desired_tcp_pos, curr_vals, res_vals) on the globals orientation
\* (orient) and got_orientation (got); jnt_pos_goal is what CartToJnt leaves in
\* its output array.
compute_ik(desired_tcp_pos, curr_vals, jnt_pos_goal, orient, got) ==
  LET jnt_pos_start == SubSeq(curr_vals, 1, n_joints)
      M == IF ~got THEN JntToCart_M(jnt_pos_start) ELSE orient
  IN  [orientation     |-> M,
       got_orientation |-> TRUE,
       tcp_pos_goal    |-> [M |-> M,
                            p |-> <<desired_tcp_pos[1], desired_tcp_pos[2],
                                    desired_tcp_pos[3]>>],
       res_vals        |-> SubSeq(jnt_pos_goal, 1, n_joints)]

-----------------------------------------------------------------------------
(* Steps of RealController::controller_publisher *)

\* double time = (double) count / control_freq, as a Cartesian coordinate.
robot_time(c) == (c * PosUnit) \div control_freq

\* The convex combination with the shares exchanged: a weighs the robot offset.
fuse_swapped(a, o, h, r) == o + (1 - a) * h + a * r

\* The convex combination of the human and the robot offset, plus the origin.
fuse(a, o, h, r) == o + a * h + (1 - a) * r

fused_tcp_pos(h, r) ==
  <<fuse(ax, origin[1], h[1], r[1]),
    fuse(ay, origin[2], h[2], r[2]),
    fuse(az, origin[3], h[3], r[3])>>

\* if (count < max_count) count++
advance_count(c) == IF c < max_count THEN c + 1 ELSE c

\* w = (double)count / max_count
weight(c) == (c * WOne) \div max_count

\* message_joint_vals.at(i) = w * ik_joint_vals.at(i) + (1-w) * curr_joint_vals.at(i)
blend(wt, ik, curr) ==
  [i \in 1..n_joints |-> (wt * ik[i] + (WOne - wt) * curr[i]) \div WOne]

\* (int)(1000 / control_freq) * latency: the delay in milliseconds.
delay_ms == (1000 \div control_freq) * latency

\* The double ms * per_ms converted to the unsigned 32-bit field nanosec, held as
\* two 16-bit halves (value = hi * 65536 + lo).  in_range: the product is below
\* 2^32; the conversion of a double outside the field's range is undefined, and
\* the halves are then those of the product modulo 2^32, one of its outcomes.
to_uint32(ms, per_ms) ==
  LET lo_prod == ms * (per_ms % 65536)
      hi_sum  == ms * (per_ms \div 65536) + lo_prod \div 65536
  IN  [hi |-> hi_sum % 65536, lo |-> lo_prod % 65536, in_range |-> hi_sum < 65536]

\* The delay scaled by 1000 for 1000000: microseconds in the nanosecond field.
time_from_start_nanosec_micro == to_uint32(delay_ms, 1000)

\* point.time_from_start.nanosec = (int)(1000 / control_freq) * latency * 1000000
time_from_start_nanosec == to_uint32(delay_ms, 1000000)

\* point and message of lines 160-164; time_from_start.sec keeps the 0 of the
\* point's construction.
trajectory_message(positions) ==
  [positions |-> positions, sec |-> 0, nanosec |-> time_from_start_nanosec]

-----------------------------------------------------------------------------
(* Callbacks of RealController.  rclcpp::spin dispatches one callback at a   *)
(* time while the context is valid; an exception that leaves a callback      *)
(* leaves spin and main, and the process terminates.                         *)

\* The body of if (control == true) { ... }, lines 129-171.
fusion_tick ==
  /\ active_ticks < MaxActiveTicks
  /\ active_ticks' = active_ticks + 1
  /\ idle_ticks' = idle_ticks
  /\ LET rc == get_robot_control(robot_time(count), robot_offset)
     IN IF rc.threw
        THEN \* std::out_of_range leaves the callback at line 135
          /\ robot_offset' = rc.vals
          /\ proc' = "terminated"
          /\ UNCHANGED <<tcp_pos, orientation, got_orientation, tcp_pos_goal,
                         ik_joint_vals, ik_calls, count, w, message_joint_vals,
                         limits_result, controller_pub>>
        ELSE
          \E jnt_pos_goal \in IkResults :
            LET target == fused_tcp_pos(human_offset, rc.vals)
                ik == compute_ik(target, curr_joint_vals, jnt_pos_goal,
                                 orientation, got_orientation)
                c == advance_count(count)
                wt == weight(c)
                msg == blend(wt, ik.res_vals, curr_joint_vals)
                ok == within_limits(msg)
            IN /\ robot_offset' = rc.vals
               /\ tcp_pos' = target
               /\ orientation' = ik.orientation
               /\ got_orientation' = ik.got_orientation
               /\ tcp_pos_goal' = ik.tcp_pos_goal
               /\ ik_joint_vals' = ik.res_vals
               /\ ik_calls' = ik_calls + 1
               /\ count' = c
               /\ w' = wt
               /\ message_joint_vals' = msg
               /\ limits_result' = <<ok>>
               \* rclcpp::shutdown() returns; the callback goes on to publish
               /\ proc' = IF ok THEN proc ELSE "shutdown"
               /\ controller_pub' = Append(controller_pub, trajectory_message(msg))

\* A call with control == false: the callback does nothing.
idle_tick ==
  /\ idle_ticks' = Min(idle_ticks + 1, MaxIdleTicks)
  /\ UNCHANGED <<active_ticks, robot_offset, proc, tcp_pos, orientation,
                 got_orientation, tcp_pos_goal, ik_joint_vals, ik_calls, count, w,
                 message_joint_vals, limits_result, controller_pub>>

\* controller_publisher with the test of the control flag left out.
controller_publisher_unguarded ==
  /\ proc = "spinning"
  /\ fusion_tick
  /\ UNCHANGED <<control, curr_joint_vals, human_offset, tcp_pos_msg, sensor_seen>>
  /\ UNCHANGED <<kinematicVars, inputHistory>>
  /\ UNCHANGED torqueVars

controller_publisher ==
  /\ proc = "spinning"
  /\ IF control = TRUE THEN fusion_tick ELSE idle_tick
  /\ UNCHANGED <<control, curr_joint_vals, human_offset, tcp_pos_msg, sensor_seen>>
  /\ UNCHANGED <<kinematicVars, inputHistory>>
  /\ UNCHANGED torqueVars

\* tcp_pos_publisher taking z from the origin instead of the target.
tcp_pos_publisher_mixed ==
  /\ proc = "spinning"
  /\ tcp_pos_msg' = <<[x |-> tcp_pos[1], y |-> tcp_pos[2], z |-> origin[3]]>>
  /\ UNCHANGED <<proc, control, curr_joint_vals, ik_joint_vals, message_joint_vals,
                 human_offset, robot_offset, count, w, tcp_pos, orientation,
                 got_orientation, tcp_pos_goal, limits_result, controller_pub,
                 sensor_seen, idle_ticks, active_ticks, ik_calls>>
  /\ UNCHANGED <<kinematicVars, inputHistory>>
  /\ UNCHANGED torqueVars

tcp_pos_publisher ==
  /\ proc = "spinning"
  /\ tcp_pos_msg' = <<[x |-> tcp_pos[1], y |-> tcp_pos[2], z |-> tcp_pos[3]]>>
  /\ UNCHANGED <<proc, control, curr_joint_vals, ik_joint_vals, message_joint_vals,
                 human_offset, robot_offset, count, w, tcp_pos, orientation,
                 got_orientation, tcp_pos_goal, limits_result, controller_pub,
                 sensor_seen, idle_ticks, active_ticks, ik_calls>>
  /\ UNCHANGED <<kinematicVars, inputHistory>>
  /\ UNCHANGED torqueVars

joint_states_callback ==
  /\ proc = "spinning"
  /\ \E data \in SensorMsgs :
       /\ curr_joint_vals' = [i \in 1..n_joints |-> data[i]]
       /\ last_joint_states' = data
       /\ overwrites' = IF last_joint_states \notin {<<>>, data}
                         THEN overwrites \cup {"joint_states"} ELSE overwrites
  /\ control' = IF control = FALSE THEN TRUE ELSE control
  /\ sensor_seen' = TRUE
  /\ UNCHANGED <<proc, ik_joint_vals, message_joint_vals, human_offset, robot_offset,
                 count, w, tcp_pos, orientation, got_orientation, tcp_pos_goal,
                 limits_result, controller_pub, tcp_pos_msg, idle_ticks, active_ticks,
                 ik_calls>>
  /\ UNCHANGED <<kinematicVars, last_falcon_pos, fuse_calls>>
  /\ UNCHANGED torqueVars

\* human_offset.at(i) = msg / 100 * mapping_ratio, msg in centimetres
falcon_to_offset(cm) == (((cm * PosUnit) \div 100) * mapping_ratio_num) \div mapping_ratio_den

\* falcon_pos_callback adding the scaled message to the stored offset.
falcon_pos_callback_accumulate ==
  /\ proc = "spinning"
  /\ \E msg \in FalconMsgs :
       /\ human_offset' = <<human_offset[1] + falcon_to_offset(msg[1]),
                            human_offset[2] + falcon_to_offset(msg[2]),
                            human_offset[3] + falcon_to_offset(msg[3])>>
       /\ last_falcon_pos' = msg
       /\ overwrites' = IF last_falcon_pos \notin {<<>>, msg}
                         THEN overwrites \cup {"falcon_position"} ELSE overwrites
  /\ UNCHANGED <<proc, control, curr_joint_vals, ik_joint_vals, message_joint_vals,
                 robot_offset, count, w, tcp_pos, orientation, got_orientation,
                 tcp_pos_goal, limits_result, controller_pub, tcp_pos_msg, sensor_seen,
                 idle_ticks, active_ticks, ik_calls>>
  /\ UNCHANGED <<kinematicVars, last_joint_states, fuse_calls>>
  /\ UNCHANGED torqueVars

falcon_pos_callback ==
  /\ proc = "spinning"
  /\ \E msg \in FalconMsgs :
       /\ human_offset' = <<falcon_to_offset(msg[1]), falcon_to_offset(msg[2]),
                            falcon_to_offset(msg[3])>>
       /\ last_falcon_pos' = msg
       /\ overwrites' = IF last_falcon_pos \notin {<<>>, msg}
                         THEN overwrites \cup {"falcon_position"} ELSE overwrites
  /\ UNCHANGED <<proc, control, curr_joint_vals, ik_joint_vals, message_joint_vals,
                 robot_offset, count, w, tcp_pos, orientation, got_orientation,
                 tcp_pos_goal, limits_result, controller_pub, tcp_pos_msg, sensor_seen,
                 idle_ticks, active_ticks, ik_calls>>
  /\ UNCHANGED <<kinematicVars, last_joint_states, fuse_calls>>
  /\ UNCHANGED torqueVars

-----------------------------------------------------------------------------
(* my_controller.cpp: constants, bounds and inputs                           *)
(*                                                                           *)
(* Positions, velocities and torques of the torque controller are integer    *)
(* numbers of 1/TorqueUnit; a position's unit is pi/4 rad, the unit of the   *)
(* literals of q_goal_.  TorqueUnit is a power of kAlpha's denominator, so   *)
(* that MaxFilterSteps updates of the velocity filter are exact.             *)

\* num_joints of my_controller.hpp
num_joints == 7

\* const double kAlpha = 0.99, as a fraction
kAlpha_num == 99
kAlpha_den == 100

MaxFilterSteps == 2
MaxTime == 3

TorqueUnit == kAlpha_den ^ MaxFilterSteps

TU(v) == [i \in 1..Len(v) |-> v[i] * TorqueUnit]

\* q_goal_ << 0, -M_PI_4, 0, -3 * M_PI_4, 0, M_PI_2, M_PI_4
GoalPosture == TU(<<0, -1, 0, -3, 0, 2, 1>>)

\* What an uninitialized Vector7d member may hold.
Uninit7 == {Zero7, <<5, -3, 1, 4, -1, 2, 6>>}

\* Readings of the position and of the velocity state interfaces.
QVecs == {GoalPosture, TU(<<1, -1, 0, -2, 0, 1, 1>>)}
DqVecs == {TU(Zero7), TU(<<1, 0, -2, 0, 1, 0, 2>>)}

\* Values of the parameters k_gains and d_gains: not set (empty), too short,
\* of length 7, too long.
KGainParams == {<<>>, <<1, 1, 1, 1, 1, 1>>, <<2, 0, 3, 1, 2, 1, 1>>,
                <<1, 1, 1, 1, 1, 1, 1, 1>>}
DGainParams == {<<>>, <<1, 1, 1, 1, 1, 1>>, <<1, 2, 0, 1, 1, 3, 2>>,
                <<1, 1, 1, 1, 1, 1, 1, 1>>}

\* What the bounded wait of update's subscriber section may produce: the
\* subscription ready and a message taken (with any position array), ready and
\* no message taken, the wait set ready for another reason, a timeout, an empty
\* wait set.
PollPositions == {<<>>, TU(<<2, 1, 0, 1, 0, 1, 3, 9>>)}
WaitResults ==
  {[kind |-> "Ready", sub_ready |-> TRUE, taken |-> TRUE, position |-> p] :
     p \in PollPositions}
  \cup {[kind |-> "Ready", sub_ready |-> TRUE, taken |-> FALSE, position |-> <<>>],
        [kind |-> "Ready", sub_ready |-> FALSE, taken |-> FALSE, position |-> <<>>],
        [kind |-> "Timeout", sub_ready |-> FALSE, taken |-> FALSE, position |-> <<>>],
        [kind |-> "Empty", sub_ready |-> FALSE, taken |-> FALSE, position |-> <<>>]}

\* The node clock does not run backwards; between two readings it advances by 0,
\* 1 or 2 units, up to MaxTime.
ClockReadings(t0) == {t0, t0 + 1, t0 + 2} \cap (0..MaxTime)

-----------------------------------------------------------------------------
(* MotionGenerator: the class is franka_example_controllers', its source is  *)
(* not part of the repository's files.  Modelled from the specification: a   *)
(* time-parametrized desired position from the start to the goal posture and *)
(* a completion flag, set once the motion's duration has elapsed.            *)

MotionTime == 2

MotionGenerator(speed_factor, q_start, q_goal) ==
  [speed_factor |-> speed_factor, q_start |-> q_start, q_goal |-> q_goal]

motion_duration(mg) == IF mg.q_start = mg.q_goal THEN 0 ELSE MotionTime

getDesiredJointPositions(mg, trajectory_time) ==
  LET T == motion_duration(mg)
      t == Max(0, Min(trajectory_time, T))
  IN  [q_desired |-> [i \in 1..num_joints |->
                        IF T = 0 THEN mg.q_goal[i]
                        ELSE mg.q_start[i] + ((mg.q_goal[i] - mg.q_start[i]) * t) \div T],
       finished  |-> trajectory_time >= T]

-----------------------------------------------------------------------------
(* MyController::update *)

\* The subscriber section, lines 59-92: it prints the positions of a taken
\* message and assigns no member; mg is the motion generator it leaves.
subscriber_section_wired(wr, mg) ==
  IF wr.kind = "Ready" /\ wr.sub_ready /\ wr.taken /\ Len(wr.position) >= num_joints
  THEN [mg EXCEPT !.q_goal = SubSeq(wr.position, 1, num_joints)]
  ELSE mg

subscriber_section(wr, mg) == mg

printed_positions(wr) ==
  IF wr.kind = "Ready" /\ wr.sub_ready /\ wr.taken THEN <<wr.position>> ELSE <<>>

\* trajectory_time = this->get_node()->now() - start_time_; period is update's
\* second argument, which it does not use.
trajectory_time_is_period(t_now, t_start, period) == period

trajectory_time(t_now, t_start, period) == t_now - t_start

\* dq_filtered_ = (1 - kAlpha) * dq_filtered_ + kAlpha * dq_
velocity_filter(filtered, dq) ==
  [i \in 1..num_joints |->
     ((kAlpha_den - kAlpha_num) * filtered[i] + kAlpha_num * dq[i]) \div kAlpha_den]

\* k_gains_.cwiseProduct(q_desired - q_) + d_gains_.cwiseProduct(-dq_filtered_)
tau_d_calculated(kg, dg, qd, q, filtered) ==
  [i \in 1..num_joints |-> kg[i] * (qd[i] - q[i]) + dg[i] * (-filtered[i])]

\* Lines 104-116 with the torque computed from the velocity filter's old value.
controller_section_stale_filter(fin, kg, dg, qd, q, dq, filtered, commands) ==
  IF ~fin
  THEN LET f == velocity_filter(filtered, dq)
           tau == tau_d_calculated(kg, dg, qd, q, filtered)
       IN  [dq_filtered |-> f,
            commands    |-> [i \in 1..Len(commands) |-> IF i <= 7 THEN tau[i] ELSE commands[i]]]
  ELSE [dq_filtered |-> filtered,
        commands    |-> [i \in 1..Len(commands) |-> 0]]

\* Lines 104-116 without the else branch: nothing is written once finished.
controller_section_no_hold(fin, kg, dg, qd, q, dq, filtered, commands) ==
  IF ~fin
  THEN LET f == velocity_filter(filtered, dq)
           tau == tau_d_calculated(kg, dg, qd, q, f)
       IN  [dq_filtered |-> f,
            commands    |-> [i \in 1..Len(commands) |-> IF i <= 7 THEN tau[i] ELSE commands[i]]]
  ELSE [dq_filtered |-> filtered,
        commands    |-> commands]

\* Lines 104-116 with the velocity filter moved in front of the if: it runs on
\* every call.
controller_section_filter_always(fin, kg, dg, qd, q, dq, filtered, commands) ==
  LET f == velocity_filter(filtered, dq)
      tau == tau_d_calculated(kg, dg, qd, q, f)
  IN  IF ~fin
      THEN [dq_filtered |-> f,
            commands    |-> [i \in 1..Len(commands) |-> IF i <= 7 THEN tau[i] ELSE commands[i]]]
      ELSE [dq_filtered |-> f,
            commands    |-> [i \in 1..Len(commands) |-> 0]]

\* Lines 104-116: if (not finished) { filter, torque law, write the 7 commands }
\* else { write 0 to every command interface }.
controller_section(fin, kg, dg, qd, q, dq, filtered, commands) ==
  IF ~fin
  THEN LET f == velocity_filter(filtered, dq)
           tau == tau_d_calculated(kg, dg, qd, q, f)
       IN  [dq_filtered |-> f,
            commands    |-> [i \in 1..Len(commands) |-> IF i <= 7 THEN tau[i] ELSE commands[i]]]
  ELSE [dq_filtered |-> filtered,
        commands    |-> [i \in 1..Len(commands) |-> 0]]

\* What one call of update leaves in the controller, given what the bounded wait
\* produced (wr), the readings of the state interfaces (q, dq) and of the clock (t).
update_effect(wr, q, dq, t) ==
  LET mg  == subscriber_section(wr, motion_generator_[1])
      out == getDesiredJointPositions(mg, trajectory_time(t, start_time_, t - now))
      cs  == controller_section(out.finished, k_gains_, d_gains_, out.q_desired,
                                q, dq, dq_filtered_, command_interfaces_)
  IN  [motion_generator |-> <<mg>>,
       q_desired        |-> out.q_desired,
       finished         |-> out.finished,
       dq_filtered      |-> cs.dq_filtered,
       commands         |-> cs.commands,
       ret              |-> "OK"]

update ==
  /\ lc = "active"
  /\ \E wr \in WaitResults, q \in QVecs, dq \in DqVecs, t \in ClockReadings(now) :
       LET e == update_effect(wr, q, dq, t)
       IN /\ ~e.finished => filter_steps < MaxFilterSteps
          /\ poll_log' = printed_positions(wr)
          /\ q_' = q
          /\ dq_' = dq
          /\ now' = t
          /\ motion_generator_' = e.motion_generator
          /\ q_desired' = e.q_desired
          /\ finished' = e.finished
          /\ dq_filtered_' = e.dq_filtered
          /\ command_interfaces_' = e.commands
          /\ update_return' = <<e.ret>>
          /\ filter_steps' = IF e.finished THEN filter_steps ELSE filter_steps + 1
          /\ finished_ticks' = IF e.finished THEN Min(finished_ticks + 1, 2)
                                ELSE finished_ticks
  /\ tick_done' = TRUE
  /\ UNCHANGED <<lc, arm_id_, k_gains_, d_gains_, q_goal_, start_time_, k_gains,
                 d_gains, configure_return>>
  /\ UNCHANGED teleopVars

-----------------------------------------------------------------------------
(* Lifecycle callbacks of MyController.  The controller manager calls        *)
(* on_init after construction, on_configure in the unconfigured state,       *)
(* on_activate in the inactive state and update in the active state.         *)

on_init ==
  /\ lc = "constructed"
  /\ q_goal_' = GoalPosture
  \* auto_declare may throw: on_init then returns ERROR
  /\ \E declared \in BOOLEAN : lc' = IF declared THEN "unconfigured" ELSE "error"
  /\ UNCHANGED <<arm_id_, k_gains_, d_gains_, dq_filtered_, q_, dq_, start_time_,
                 motion_generator_, command_interfaces_, now, k_gains, d_gains,
                 configure_return, q_desired, finished, poll_log, update_return,
                 tick_done, finished_ticks, filter_steps>>
  /\ UNCHANGED teleopVars

\* on_configure's checks of the two parameter arrays, lines 158-175, without the
\* check of d_gains' size.
configure_checks_no_d_size(k, d) ==
  IF Len(k) = 0 THEN "FAILURE"
  ELSE IF Len(k) # num_joints THEN "FAILURE"
  ELSE IF Len(d) = 0 THEN "FAILURE"
  ELSE "SUCCESS"

\* on_configure's checks of the two parameter arrays, lines 158-175.
configure_checks(k, d) ==
  IF Len(k) = 0 THEN "FAILURE"
  ELSE IF Len(k) # num_joints THEN "FAILURE"
  ELSE IF Len(d) = 0 THEN "FAILURE"
  ELSE IF Len(d) # num_joints THEN "FAILURE"
  ELSE "SUCCESS"

\* The copy loop of lines 176-179: element i of both parameter arrays is read
\* with .at(), which throws std::out_of_range past the end of an array; the
\* elements copied before that stay written.
copy_gains(k, d, old_k, old_d) ==
  LET n == Min(Min(Len(k), Len(d)), num_joints)
  IN [k_    |-> [i \in 1..num_joints |-> IF i <= n THEN k[i] ELSE old_k[i]],
      d_    |-> [i \in 1..num_joints |-> IF i <= n /\ i <= Len(d) THEN d[i] ELSE old_d[i]],
      threw |-> n < num_joints]

on_configure ==
  /\ lc = "unconfigured"
  /\ arm_id_' = "panda"
  /\ \E k \in KGainParams, d \in DGainParams :
       LET r == configure_checks(k, d)
           c == copy_gains(k, d, k_gains_, d_gains_)
       IN /\ k_gains' = k
          /\ d_gains' = d
          /\ IF r = "SUCCESS"
             THEN /\ d_gains_' = c.d_
                  /\ k_gains_' = c.k_
                  /\ IF c.threw
                     THEN /\ configure_return' = <<"ERROR">>
                          /\ lc' = "error"
                          /\ UNCHANGED <<dq_filtered_, filter_steps>>
                     ELSE /\ configure_return' = <<r>>
                          /\ dq_filtered_' = Zero7
                          /\ filter_steps' = 0
                          /\ lc' = "inactive"
             ELSE /\ configure_return' = <<r>>
                  /\ UNCHANGED <<d_gains_, k_gains_, dq_filtered_, filter_steps, lc>>
  /\ UNCHANGED <<q_, dq_, q_goal_, start_time_, motion_generator_,
                 command_interfaces_, now, q_desired, finished, poll_log,
                 update_return, tick_done, finished_ticks>>
  /\ UNCHANGED teleopVars

on_activate ==
  /\ lc = "inactive"
  /\ \E q \in QVecs, dq \in DqVecs, t \in ClockReadings(now) :
       /\ q_' = q
       /\ dq_' = dq
       /\ motion_generator_' = <<MotionGenerator(<<1, 5>>, q, q_goal_)>>
       /\ start_time_' = t
       /\ now' = t
  /\ lc' = "active"
  /\ tick_done' = FALSE
  /\ finished_ticks' = 0
  /\ UNCHANGED <<arm_id_, k_gains_, d_gains_, dq_filtered_, q_goal_,
                 command_interfaces_, k_gains, d_gains, configure_return, q_desired,
                 finished, poll_log, update_return, filter_steps>>
  /\ UNCHANGED teleopVars

\* The controller manager deactivates the controller; MyController does not
\* override on_deactivate.
on_deactivate ==
  /\ lc = "active"
  /\ lc' = "inactive"
  /\ UNCHANGED <<arm_id_, k_gains_, d_gains_, dq_filtered_, q_, dq_, q_goal_,
                 start_time_, motion_generator_, command_interfaces_, now, k_gains,
                 d_gains, configure_return, q_desired, finished, poll_log,
                 update_return, tick_done, finished_ticks, filter_steps>>
  /\ UNCHANGED teleopVars

\* The torque controller before anything has run, its members holding one fixed
\* choice of values.
TorqueParked ==
  /\ lc = "constructed"
  /\ arm_id_ = ""
  /\ k_gains_ = Zero7
  /\ d_gains_ = Zero7
  /\ dq_filtered_ = Zero7
  /\ q_ = Zero7
  /\ dq_ = Zero7
  /\ q_goal_ = Zero7
  /\ start_time_ = 0
  /\ motion_generator_ = <<>>
  /\ command_interfaces_ = Zero7
  /\ now = 0
  /\ k_gains = <<>>
  /\ d_gains = <<>>
  /\ configure_return = <<>>
  /\ q_desired = Zero7
  /\ finished = FALSE
  /\ poll_log = <<>>
  /\ update_return = <<>>
  /\ tick_done = FALSE
  /\ finished_ticks = 0
  /\ filter_steps = 0

\* The torque controller after construction: the Vector7d members that the
\* callbacks set before they are read hold indeterminate values.
TorqueInit ==
  /\ lc = "constructed"
  /\ arm_id_ = ""
  /\ k_gains_ \in Uninit7
  /\ d_gains_ \in Uninit7
  /\ dq_filtered_ \in Uninit7
  /\ q_ = Zero7
  /\ dq_ = Zero7
  /\ q_goal_ \in Uninit7
  /\ start_time_ = 0
  /\ motion_generator_ = <<>>
  /\ command_interfaces_ = Zero7
  /\ now = 0
  /\ k_gains = <<>>
  /\ d_gains = <<>>
  /\ configure_return = <<>>
  /\ q_desired = Zero7
  /\ finished = FALSE
  /\ poll_log = <<>>
  /\ update_return = <<>>
  /\ tick_done = FALSE
  /\ finished_ticks = 0
  /\ filter_steps = 0

-----------------------------------------------------------------------------
(* The fusion node: the state after main has constructed the node.  The      *)
(* constructor calls rclcpp::shutdown() when create_tree fails and goes on   *)
(* to get_chain; spin then dispatches nothing.  get_chain does not look at   *)
(* what Tree::getChain returns: when the tree has no chain from panda_link0  *)
(* to panda_grasptarget, panda_chain stays empty and the node spins.         *)

\* create_tree(): true when kdl_parser::treeFromFile filled panda_tree.
create_tree(tree) == tree = "loaded"

\* get_chain(): what panda_tree.getChain leaves in panda_chain.
get_chain(tree, found) == IF tree = "loaded" /\ found THEN "resolved" ELSE "empty"

TeleopInit ==
  /\ panda_tree \in {"loaded", "empty"}
  /\ proc = IF ~create_tree(panda_tree) THEN "shutdown" ELSE "spinning"
  /\ \E found \in BOOLEAN : panda_chain = get_chain(panda_tree, found)
  /\ last_joint_states = <<>>
  /\ last_falcon_pos = <<>>
  /\ overwrites = {}
  /\ fuse_calls = 0
  /\ control = FALSE
  /\ curr_joint_vals = Zero7
  /\ ik_joint_vals = Zero7
  /\ message_joint_vals = Zero7
  /\ human_offset = Zero3
  /\ robot_offset = Zero3
  /\ count = 0
  /\ w = 0
  /\ tcp_pos = tcp_pos_init
  /\ orientation = IdentityRotation
  /\ got_orientation = FALSE
  /\ tcp_pos_goal = [M |-> IdentityRotation, p |-> Zero3]
  /\ limits_result = <<>>
  /\ controller_pub = <<>>
  /\ tcp_pos_msg = <<>>
  /\ sensor_seen = FALSE
  /\ idle_ticks = 0
  /\ active_ticks = 0
  /\ ik_calls = 0

Init == TeleopInit /\ TorqueParked

Next ==
  \/ controller_publisher
  \/ tcp_pos_publisher
  \/ joint_states_callback
  \/ falcon_pos_callback

Spec == Init /\ [][Next]_vars

-----------------------------------------------------------------------------
(* compute_ik called on its own: any target, any current joints, any solver  *)
(* result, from the initial values of the globals.                           *)

compute_ik_call ==
  /\ ik_calls < MaxIkCalls
  /\ \E desired \in TcpTargets, curr \in JointVecs, jnt_pos_goal \in IkResults :
       LET ik == compute_ik(desired, curr, jnt_pos_goal, orientation, got_orientation)
       IN /\ tcp_pos' = desired
          /\ curr_joint_vals' = curr
          /\ orientation' = ik.orientation
          /\ got_orientation' = ik.got_orientation
          /\ tcp_pos_goal' = ik.tcp_pos_goal
          /\ ik_joint_vals' = ik.res_vals
  /\ ik_calls' = ik_calls + 1
  /\ UNCHANGED <<proc, control, message_joint_vals, human_offset, robot_offset, count,
                 w, limits_result, controller_pub, tcp_pos_msg, sensor_seen,
                 idle_ticks, active_ticks>>
  /\ UNCHANGED <<kinematicVars, inputHistory>>
  /\ UNCHANGED torqueVars

InitIK == TeleopInit /\ TorqueParked /\ panda_chain = "resolved"

NextIK == compute_ik_call

SpecIK == InitIK /\ [][NextIK]_vars

-----------------------------------------------------------------------------
(* within_limits called on its own, on every vector of LimitProbes.          *)

within_limits_call ==
  /\ limits_result = <<>>
  /\ limits_result' = <<within_limits(message_joint_vals)>>
  /\ UNCHANGED <<proc, control, curr_joint_vals, ik_joint_vals, message_joint_vals,
                 human_offset, robot_offset, count, w, tcp_pos, orientation,
                 got_orientation, tcp_pos_goal, controller_pub, tcp_pos_msg,
                 sensor_seen, idle_ticks, active_ticks, ik_calls>>
  /\ UNCHANGED <<kinematicVars, inputHistory>>
  /\ UNCHANGED torqueVars

InitLimits ==
  /\ proc = "spinning"
  /\ control = FALSE
  /\ curr_joint_vals = Zero7
  /\ ik_joint_vals = Zero7
  /\ message_joint_vals \in LimitProbes
  /\ human_offset = Zero3
  /\ robot_offset = Zero3
  /\ count = 0
  /\ w = 0
  /\ tcp_pos = tcp_pos_init
  /\ orientation = IdentityRotation
  /\ got_orientation = FALSE
  /\ tcp_pos_goal = [M |-> IdentityRotation, p |-> Zero3]
  /\ limits_result = <<>>
  /\ controller_pub = <<>>
  /\ tcp_pos_msg = <<>>
  /\ sensor_seen = FALSE
  /\ idle_ticks = 0
  /\ active_ticks = 0
  /\ ik_calls = 0
  /\ panda_tree = "loaded"
  /\ panda_chain = "resolved"
  /\ last_joint_states = <<>>
  /\ last_falcon_pos = <<>>
  /\ overwrites = {}
  /\ fuse_calls = 0
  /\ TorqueParked

NextLimits == within_limits_call

SpecLimits == InitLimits /\ [][NextLimits]_vars

-----------------------------------------------------------------------------
(* The setpoint of lines 160-170 built on its own, for every vector of       *)
(* LimitProbes as message_joint_vals.                                        *)

setpoint_call ==
  /\ controller_pub = <<>>
  /\ controller_pub' = Append(controller_pub, trajectory_message(message_joint_vals))
  /\ UNCHANGED <<proc, control, curr_joint_vals, ik_joint_vals, message_joint_vals,
                 human_offset, robot_offset, count, w, tcp_pos, orientation,
                 got_orientation, tcp_pos_goal, limits_result, tcp_pos_msg,
                 sensor_seen, idle_ticks, active_ticks, ik_calls>>
  /\ UNCHANGED <<kinematicVars, inputHistory>>
  /\ UNCHANGED torqueVars

InitSetpoint == InitLimits

NextSetpoint == setpoint_call

SpecSetpoint == InitSetpoint /\ [][NextSetpoint]_vars

-----------------------------------------------------------------------------
(* The fusion formula of lines 139-141 evaluated on its own, for any human   *)
(* offset the haptic callback can store and any autonomous offset.           *)

MaxFuseCalls == 2

\* falcon_position messages with each coordinate -5, 0 or 6 centimetres.
FalconProbes == {<<x, y, z>> : x \in {-5, 0, 6}, y \in {-5, 0, 6}, z \in {-5, 0, 6}}

HumanOffsets ==
  {<<falcon_to_offset(m[1]), falcon_to_offset(m[2]), falcon_to_offset(m[3])>> :
     m \in FalconProbes}

\* Autonomous offsets: the ramp (t, t, t) at the first ticks' times, and vectors
\* with three different coordinates.
AutonomousOffsets ==
  {<<robot_time(k), robot_time(k), robot_time(k)>> : k \in 0..3}
  \cup {<<1000, -2000, 30000>>, <<-7, 0, 12345>>}

fusion_call ==
  /\ fuse_calls < MaxFuseCalls
  /\ fuse_calls' = fuse_calls + 1
  /\ \E h \in HumanOffsets, r \in AutonomousOffsets :
       /\ human_offset' = h
       /\ robot_offset' = r
       /\ tcp_pos' = fused_tcp_pos(h, r)
  /\ UNCHANGED <<proc, control, curr_joint_vals, ik_joint_vals, message_joint_vals,
                 count, w, orientation, got_orientation, tcp_pos_goal, limits_result,
                 controller_pub, tcp_pos_msg, sensor_seen, idle_ticks, active_ticks,
                 ik_calls, last_joint_states, last_falcon_pos, overwrites>>
  /\ UNCHANGED kinematicVars
  /\ UNCHANGED torqueVars

InitFusion == TeleopInit /\ TorqueParked /\ panda_chain = "resolved"

NextFusion == fusion_call

SpecFusion == InitFusion /\ [][NextFusion]_vars

-----------------------------------------------------------------------------
(* Natural numbers of any size: a sequence of words below LimbBase, least    *)
(* significant first, without leading zero words (the empty sequence is 0).  *)

LimbBase == 2^15

RECURSIVE BigNorm(_)
BigNorm(a) ==
  IF a = <<>> THEN a
  ELSE IF a[Len(a)] = 0 THEN BigNorm(SubSeq(a, 1, Len(a) - 1))
  ELSE a

RECURSIVE BigOfInt(_)
BigOfInt(n) == IF n = 0 THEN <<>> ELSE <<n % LimbBase>> \o BigOfInt(n \div LimbBase)

Limb(a, i) == IF i <= Len(a) THEN a[i] ELSE 0

RECURSIVE BigAddFrom(_, _, _, _)
BigAddFrom(a, b, i, carry) ==
  IF i > Len(a) /\ i > Len(b)
  THEN IF carry = 0 THEN <<>> ELSE <<carry>>
  ELSE LET t == Limb(a, i) + Limb(b, i) + carry
       IN  <<t % LimbBase>> \o BigAddFrom(a, b, i + 1, t \div LimbBase)

BigAdd(a, b) == BigAddFrom(a, b, 1, 0)

RECURSIVE BigSubFrom(_, _, _, _)
BigSubFrom(a, b, i, borrow) ==
  IF i > Len(a) THEN <<>>
  ELSE LET t == a[i] - Limb(b, i) - borrow
       IN  <<IF t < 0 THEN t + LimbBase ELSE t>>
             \o BigSubFrom(a, b, i + 1, IF t < 0 THEN 1 ELSE 0)

\* a - b, for a >= b
BigSub(a, b) == BigNorm(BigSubFrom(a, b, 1, 0))

RECURSIVE BigCmpFrom(_, _, _)
BigCmpFrom(a, b, i) ==
  IF i = 0 THEN 0
  ELSE IF a[i] < b[i] THEN -1
  ELSE IF a[i] > b[i] THEN 1
  ELSE BigCmpFrom(a, b, i - 1)

\* -1, 0 or 1 as a < b, a = b or a > b
BigCmp(a, b) ==
  IF Len(a) < Len(b) THEN -1
  ELSE IF Len(a) > Len(b) THEN 1
  ELSE BigCmpFrom(a, b, Len(a))

RECURSIVE BigMulSmallFrom(_, _, _, _)
BigMulSmallFrom(a, k, i, carry) ==
  IF i > Len(a)
  THEN IF carry = 0 THEN <<>> ELSE <<carry>>
  ELSE LET t == a[i] * k + carry
       IN  <<t % LimbBase>> \o BigMulSmallFrom(a, k, i + 1, t \div LimbBase)

\* a * k, for 0 <= k <= LimbBase
BigMulSmall(a, k) == BigNorm(BigMulSmallFrom(a, k, 1, 0))

\* a * LimbBase^n
BigShiftLimbs(a, n) == IF a = <<>> THEN a ELSE [i \in 1..n |-> 0] \o a

RECURSIVE BigMulFrom(_, _, _)
BigMulFrom(a, b, i) ==
  IF i > Len(b) THEN <<>>
  ELSE BigAdd(BigShiftLimbs(BigMulSmall(a, b[i]), i - 1), BigMulFrom(a, b, i + 1))

BigMul(a, b) == BigNorm(BigMulFrom(a, b, 1))

RECURSIVE BigDivSmallFrom(_, _, _, _)
BigDivSmallFrom(a, d, i, rem) ==
  IF i = 0 THEN <<>>
  ELSE LET t == rem * LimbBase + a[i]
       IN  BigDivSmallFrom(a, d, i - 1, t % d) \o <<t \div d>>

\* a \div d, for 0 < d < LimbBase
BigDivSmall(a, d) == BigNorm(BigDivSmallFrom(a, d, Len(a), 0))

RECURSIVE BigModSmallFrom(_, _, _, _)
BigModSmallFrom(a, d, i, rem) ==
  IF i = 0 THEN rem
  ELSE BigModSmallFrom(a, d, i - 1, (rem * LimbBase + a[i]) % d)

\* a % d, for 0 < d < LimbBase
BigModSmall(a, d) == BigModSmallFrom(a, d, Len(a), 0)

\* a * 2^n
BigShl(a, n) == BigShiftLimbs(BigMulSmall(a, 2^(n % 15)), n \div 15)

\* a \div 2^n
BigShr(a, n) ==
  IF n \div 15 >= Len(a) THEN <<>>
  ELSE BigDivSmall(SubSeq(a, n \div 15 + 1, Len(a)), 2^(n % 15))

RECURSIVE BitLenSmall(_)
BitLenSmall(n) == IF n = 0 THEN 0 ELSE 1 + BitLenSmall(n \div 2)

\* the number of binary digits of a
BigBitLen(a) == IF a = <<>> THEN 0 ELSE 15 * (Len(a) - 1) + BitLenSmall(a[Len(a)])

BigIsOdd(a) == a # <<>> /\ a[1] % 2 = 1

-----------------------------------------------------------------------------
(* double: IEEE-754 binary64.  A finite double is [s, m, e] with the value   *)
(* s * m * 2^e, s the sign (1 or -1) and m a natural of binary64_precision   *)
(* binary digits, or m = 0 for zero.  Every operation gives the double       *)
(* nearest to its exact result, ties to the even mantissa.  The values of    *)
(* the fusion node are far from the exponent's limits: no overflow, no       *)
(* subnormal numbers.                                                        *)

binary64_precision == 53

DblZero == [s |-> 1, m |-> <<>>, e |-> 0]

\* the double nearest to s * M * 2^E
RoundToDouble(s, M, E) ==
  LET L == BigBitLen(M)
  IN  IF L = 0 THEN DblZero
      ELSE IF L <= binary64_precision
      THEN [s |-> s, m |-> BigShl(M, binary64_precision - L),
            e |-> E - (binary64_precision - L)]
      ELSE LET sh   == L - binary64_precision
               q    == BigShr(M, sh)
               r    == BigSub(M, BigShl(q, sh))
               half == BigShl(<<1>>, sh - 1)
               c    == BigCmp(r, half)
               q1   == IF c = 1 \/ (c = 0 /\ BigIsOdd(q)) THEN BigAdd(q, <<1>>) ELSE q
           IN  IF BigBitLen(q1) > binary64_precision
               THEN [s |-> s, m |-> BigShr(q1, 1), e |-> E + sh + 1]
               ELSE [s |-> s, m |-> q1, e |-> E + sh]

\* The double nearest to n / d, for an integer n and 0 < d < LimbBase: the
\* conversion of a decimal literal of the source (n / 10^k), and the quotient of
\* two integers converted to double.
DblOfRatio(n, d) ==
  IF n = 0 THEN DblZero
  ELSE LET a   == BigShl(BigOfInt(IF n < 0 THEN -n ELSE n), 75)
           q   == BigDivSmall(a, d)
           rem == BigModSmall(a, d)
           M   == BigAdd(BigShl(q, 1), IF rem = 0 THEN <<>> ELSE <<1>>)
       IN  RoundToDouble(IF n < 0 THEN -1 ELSE 1, M, -76)

DblNeg(x) == [x EXCEPT !.s = -x.s]

\* x + y exactly, as [s, m, e] with m of any size
DblExactSum(x, y) ==
  IF x.m = <<>> THEN y
  ELSE IF y.m = <<>> THEN x
  ELSE LET e == IF x.e < y.e THEN x.e ELSE y.e
           X == BigShl(x.m, x.e - e)
           Y == BigShl(y.m, y.e - e)
           c == BigCmp(X, Y)
       IN  IF x.s = y.s THEN [s |-> x.s, m |-> BigAdd(X, Y), e |-> e]
           ELSE IF c = 0 THEN DblZero
           ELSE IF c = 1 THEN [s |-> x.s, m |-> BigSub(X, Y), e |-> e]
           ELSE [s |-> y.s, m |-> BigSub(Y, X), e |-> e]

DblAdd(x, y) == LET t == DblExactSum(x, y) IN RoundToDouble(t.s, t.m, t.e)

DblSub(x, y) == DblAdd(x, DblNeg(y))

DblMul(x, y) ==
  IF x.m = <<>> \/ y.m = <<>> THEN DblZero
  ELSE RoundToDouble(x.s * y.s, BigMul(x.m, y.m), x.e + y.e)

\* x < y
DblLess(x, y) == LET t == DblExactSum(x, DblNeg(y)) IN t.m # <<>> /\ t.s = -1

\* A literal of the source with four decimals, given as an integer number of
\* 1/10^4.
Dbl4(n) == DblOfRatio(n, 10^4)

DblVec4(v) == [i \in 1..Len(v) |-> Dbl4(v[i])]

\* lower_joint_limits and upper_joint_limits as the doubles they are
lower_joint_limits_binary64 ==
  DblVec4(<<-28973, -17628, -28973, -30718, -28973, -175, -28973>>)

upper_joint_limits_binary64 ==
  DblVec4(<<28973, 17628, 28973, -698, 28973, 37525, 28973>>)

\* within_limits on doubles
RECURSIVE within_limits_binary64_from(_, _)
within_limits_binary64_from(vals, i) ==
  IF i > n_joints THEN TRUE
  ELSE IF DblLess(upper_joint_limits_binary64[i], vals[i])
          \/ DblLess(vals[i], lower_joint_limits_binary64[i]) THEN FALSE
  ELSE within_limits_binary64_from(vals, i + 1)

within_limits_binary64(vals) == within_limits_binary64_from(vals, 1)

\* w = (double)count / max_count
weight_binary64(c) == DblOfRatio(c, max_count)

\* message_joint_vals.at(i) = w * ik_joint_vals.at(i) + (1-w) * curr_joint_vals.at(i)
blend_binary64(wt, ik, curr) ==
  [i \in 1..n_joints |->
     DblAdd(DblMul(wt, ik[i]), DblMul(DblSub(DblOfRatio(1, 1), wt), curr[i]))]

-----------------------------------------------------------------------------
(* The ramp, the blend and the limit check of lines 147-154 on their own, in *)
(* doubles: the tick with the ramp counter at any value below MaxBlendCount, *)
(* for current joints and IK results on the limits, inside and outside them. *)

MaxBlendCount == 13

Binary64JointVecs ==
  {upper_joint_limits_binary64, lower_joint_limits_binary64,
   DblVec4(<<0, -7854, 0, -23562, 0, 15708, 7854>>),
   DblVec4(<<0, 0, 0, 0, 0, 0, 0>>)}

blend_call ==
  /\ limits_result = <<>>
  /\ count' = advance_count(count)
  /\ w' = weight_binary64(count')
  /\ message_joint_vals' = blend_binary64(w', ik_joint_vals, curr_joint_vals)
  /\ limits_result' = <<within_limits_binary64(message_joint_vals')>>
  /\ UNCHANGED <<proc, control, curr_joint_vals, ik_joint_vals, human_offset,
                 robot_offset, tcp_pos, orientation, got_orientation, tcp_pos_goal,
                 controller_pub, tcp_pos_msg, sensor_seen, idle_ticks, active_ticks,
                 ik_calls>>
  /\ UNCHANGED <<kinematicVars, inputHistory>>
  /\ UNCHANGED torqueVars

InitBlend ==
  /\ proc = "spinning"
  /\ control = TRUE
  /\ curr_joint_vals \in Binary64JointVecs
  /\ ik_joint_vals \in Binary64JointVecs
  /\ message_joint_vals = DblVec4(Zero7)
  /\ human_offset = Zero3
  /\ robot_offset = Zero3
  /\ count \in 0..(MaxBlendCount - 1)
  /\ w = weight_binary64(count)
  /\ tcp_pos = tcp_pos_init
  /\ orientation = IdentityRotation
  /\ got_orientation = FALSE
  /\ tcp_pos_goal = [M |-> IdentityRotation, p |-> Zero3]
  /\ limits_result = <<>>
  /\ controller_pub = <<>>
  /\ tcp_pos_msg = <<>>
  /\ sensor_seen = TRUE
  /\ idle_ticks = 0
  /\ active_ticks = 0
  /\ ik_calls = 0
  /\ panda_tree = "loaded"
  /\ panda_chain = "resolved"
  /\ last_joint_states = <<>>
  /\ last_falcon_pos = <<>>
  /\ overwrites = {}
  /\ fuse_calls = 0
  /\ TorqueParked

NextBlend == blend_call

SpecBlend == InitBlend /\ [][NextBlend]_vars

-----------------------------------------------------------------------------
(* The torque controller, the fusion node's variables held at their initial  *)
(* values.                                                                   *)

InitTorque == TorqueInit /\ TeleopInit /\ panda_chain = "resolved"

NextTorque ==
  \/ on_init
  \/ on_configure
  \/ on_activate
  \/ update
  \/ on_deactivate

SpecTorque == InitTorque /\ [][NextTorque]_vars

-----------------------------------------------------------------------------
(* Claims about the fusion node *)

\* C2 (as stated): after k Active fusion ticks the smoothing counter equals
\* min(k, maxTicks) and the weight equals min(k, maxTicks)/maxTicks.
C2_RampFollowsActiveTicks ==
  active_ticks < MaxActiveTicks =>
    /\ count = Min(active_ticks, max_count)
    /\ w * max_count = Min(active_ticks, max_count) * WOne

\* C3: before the first joint_states update nothing of the control loop has run
\* (no setpoint published, no IK solve, no ramp advance, no callback left by an
\* exception); the control flag is set exactly when the first update has been
\* received, and it is never cleared.
C3_IdleUntilFirstSensorUpdate ==
  /\ [](control = sensor_seen)
  /\ [](~control =>
          /\ controller_pub = <<>>
          /\ ik_calls = 0
          /\ ~got_orientation
          /\ count = 0
          /\ w = 0
          /\ robot_offset = Zero3
          /\ active_ticks = 0
          /\ proc # "terminated")
  /\ [][control => control']_vars

\* The timer fired while idle, a haptic update arrived, then the first sensor
\* update, then the timer fired again.
C3_Witness ==
  /\ control
  /\ idle_ticks > 0
  /\ active_ticks > 0
  /\ human_offset # Zero3

\* C4: compute_ik captures the orientation from the forward kinematics of the
\* current joints on its first call only; the flag is true after every call and
\* never false again, the stored orientation never changes once captured, and
\* every call builds its goal pose with the stored orientation.
C4_OrientationFrozen ==
  /\ [](ik_calls = 0 => ~got_orientation)
  /\ [](ik_calls > 0 => (got_orientation /\ tcp_pos_goal.M = orientation
                          /\ tcp_pos_goal.p = tcp_pos))
  /\ [][(~got_orientation /\ ik_calls' # ik_calls)
          => orientation' = JntToCart_M(curr_joint_vals')]_vars
  /\ [][got_orientation => (got_orientation' /\ orientation' = orientation)]_vars

\* A later call, made with other current joints than the first, has built its
\* goal with the orientation of the first call.
C4_Witness ==
  /\ ik_calls >= 2
  /\ got_orientation
  /\ orientation # JntToCart_M(curr_joint_vals)
  /\ orientation # IdentityRotation
  /\ tcp_pos_goal.M = orientation

\* C7: within_limits(v) is true if and only if every joint lies in its closed
\* interval [lower, upper].
C7_WithinLimitsIffAllInside ==
  limits_result # <<>> =>
    limits_result[1] =
      (\A i \in 1..n_joints :
         /\ lower_joint_limits[i] <= message_joint_vals[i]
         /\ message_joint_vals[i] <= upper_joint_limits[i])

\* Rejected for the last joint alone, one unit above its upper limit, the other
\* six joints being exactly on a limit.
C7_Witness ==
  /\ limits_result = <<FALSE>>
  /\ message_joint_vals[n_joints] = upper_joint_limits[n_joints] + 1
  /\ \A i \in 1..(n_joints - 1) :
       message_joint_vals[i] \in {lower_joint_limits[i], upper_joint_limits[i]}


\* C12: every setpoint carries the delay floor(1000/rate) * latency milliseconds
\* = 100 ms: the nanosecond field holds 100,000,000 = 100 * 10^6, the product is
\* within the unsigned 32-bit field, and the seconds field is 0.
C12_SetpointDelay ==
  \A n \in 1..Len(controller_pub) :
    LET m == controller_pub[n]
    IN /\ m.sec = 0
       /\ m.nanosec.in_range
       /\ m.nanosec.hi * 65536 + m.nanosec.lo = 100000000
       /\ m.nanosec.hi * 65536 + m.nanosec.lo = ((1000 \div 20) * 2) * 1000000
       /\ delay_ms = 100

\* A setpoint has been built, for a joint vector other than the initial one.
C12_Witness ==
  /\ Len(controller_pub) = 1
  /\ controller_pub[1].positions = message_joint_vals
  /\ message_joint_vals # Zero7

\* C13: with the weights (1, 1, 1) the fused target is origin + human offset on
\* each axis, whatever the autonomous offset.
C13_FusionIsOriginPlusHuman ==
  fuse_calls > 0 =>
    /\ \A i \in 1..3 : tcp_pos[i] = origin[i] + human_offset[i]
    /\ \A r \in AutonomousOffsets : fused_tcp_pos(human_offset, r) = tcp_pos

\* The formula has been evaluated with a non-zero human offset and an autonomous
\* offset that is non-zero and differs between the axes.
C13_Witness ==
  /\ fuse_calls > 0
  /\ \A i \in 1..3 : human_offset[i] # 0
  /\ robot_offset[1] # robot_offset[2]
  /\ robot_offset[3] # 0
  /\ tcp_pos # origin

\* C14 (as stated): when the kinematic tree could not be loaded or the chain
\* could not be resolved, no fusion tick, IK solve or setpoint publication
\* happens.
C14_StartupFailureIsFatal ==
  (panda_tree = "empty" \/ panda_chain = "empty") =>
    /\ active_ticks = 0
    /\ ik_calls = 0
    /\ controller_pub = <<>>

\* C15 (as stated): the Active tick's call of get_robot_control on the
\* 3-component autonomous offset completes normally, the offset keeps its three
\* components, and the tick goes on to fusion and the IK solve.
C15_RobotControlCompletes ==
  active_ticks > 0 =>
    /\ proc # "terminated"
    /\ Len(robot_offset) = 3
    /\ ik_calls = active_ticks

\* C16 (as stated): the Active tick with index k evaluates the autonomous source
\* at k / rate, and the session goes on to the tick with index k + 1, evaluated
\* at a later time.
C16_EvaluationTimeFollowsTickIndex ==
  /\ active_ticks > 0 =>
       \A i \in 1..3 : robot_offset[i] = robot_time(active_ticks - 1)
  /\ (active_ticks > 0 /\ active_ticks < MaxActiveTicks) =>
       proc \in {"spinning", "shutdown"}

\* C17 (as stated): every Active tick advances the ramp, then blends the IK
\* result with the current joints by the advanced weight, limit-checks the blend
\* and, the check passing, emits it.
C17_BlendIsCheckedAndEmitted ==
  [][active_ticks' = active_ticks + 1 =>
       /\ count' = advance_count(count)
       /\ w' = weight(count')
       /\ \A i \in 1..n_joints :
            WOne * message_joint_vals'[i] =
              w' * ik_joint_vals'[i] + (WOne - w') * curr_joint_vals[i]
       /\ limits_result' = <<within_limits(message_joint_vals')>>
       /\ limits_result' = <<TRUE>> =>
            /\ Len(controller_pub') = Len(controller_pub) + 1
            /\ controller_pub'[Len(controller_pub')].positions = message_joint_vals'
       /\ w' = WOne => message_joint_vals' = ik_joint_vals']_vars

\* C18 (as stated): every telemetry message carries a target that a fusion tick
\* has computed.
C18_TelemetryCarriesFusionTarget ==
  tcp_pos_msg # <<>> => (active_ticks > 0 /\ ik_calls > 0)

\* C18 (amended): every telemetry message carries the three coordinates of the
\* Cartesian target as it stands when the telemetry timer fires, and the timer
\* does not change the target; as long as no fusion tick has computed a target,
\* that is the initial one.
C18_TelemetryCarriesCurrentTarget ==
  /\ [][tcp_pos_msg' # tcp_pos_msg =>
          /\ tcp_pos_msg' = <<[x |-> tcp_pos[1], y |-> tcp_pos[2], z |-> tcp_pos[3]]>>
          /\ tcp_pos' = tcp_pos]_vars
  /\ [](ik_calls = 0 => tcp_pos = tcp_pos_init)

\* A telemetry message published while idle, after the fusion timer has fired
\* and a haptic update has arrived: it carries the initial target.
C18_Witness ==
  /\ tcp_pos_msg = <<[x |-> tcp_pos_init[1], y |-> tcp_pos_init[2], z |-> tcp_pos_init[3]]>>
  /\ ~control
  /\ idle_ticks > 0
  /\ human_offset # Zero3

-----------------------------------------------------------------------------
(* Claims about the torque controller *)

\* The torque the PD law gives for the controller's present members.
pd_torque_now == tau_d_calculated(k_gains_, d_gains_, q_desired, q_, dq_filtered_)

all_commands_zero == \A i \in 1..7 : command_interfaces_[i] = 0

\* C5: after an update whose motion generator reported finished, each of the 7
\* joint commands is 0, whatever the gains, the measured position and velocity
\* and the filtered velocity.
C5_FinishedWritesZero ==
  (tick_done /\ finished) => all_commands_zero

\* An update saw finished while the PD law would have given a non-zero torque.
C5_Witness ==
  /\ tick_done
  /\ finished
  /\ all_commands_zero
  /\ pd_torque_now # Zero7
  /\ dq_ # Zero7
  /\ dq_filtered_ # Zero7

C8_TorqueLaw ==
  (tick_done /\ ~finished) =>
    /\ \A i \in 1..7 :
         command_interfaces_[i] =
           k_gains_[i] * (q_desired[i] - q_[i]) + d_gains_[i] * (0 - dq_filtered_[i])
    /\ (q_desired = q_ /\ dq_filtered_ = Zero7) => all_commands_zero

\* The second filter update of a run: the filtered velocity is neither zero nor
\* the measured one, and the torque is not zero.
C8_Witness ==
  /\ tick_done
  /\ ~finished
  /\ filter_steps = 2
  /\ dq_filtered_ # Zero7
  /\ dq_filtered_ # dq_
  /\ q_ # q_desired
  /\ ~all_commands_zero

\* C9: on_configure returns SUCCESS exactly when k_gains and d_gains both have 7
\* elements; when it returns FAILURE it leaves the stored gains and the filtered
\* velocity as they were and the controller unconfigured; the controller is
\* inactive or active, and update runs, only with the gains a successful
\* on_configure stored.
C9_ConfigureValidatesGains ==
  /\ [](configure_return # <<>> =>
          (configure_return[1] = "SUCCESS" <=> (Len(k_gains) = 7 /\ Len(d_gains) = 7)))
  /\ [][(lc = "unconfigured" /\ configure_return' = <<"FAILURE">>) =>
          /\ k_gains_' = k_gains_
          /\ d_gains_' = d_gains_
          /\ dq_filtered_' = dq_filtered_
          /\ lc' = "unconfigured"]_vars
  /\ []((lc \in {"inactive", "active"} \/ tick_done) =>
          /\ configure_return = <<"SUCCESS">>
          /\ k_gains_ = k_gains
          /\ d_gains_ = d_gains)

\* on_configure failed on a d_gains array that is too long, k_gains being valid.
C9_Witness ==
  /\ lc = "unconfigured"
  /\ configure_return = <<"FAILURE">>
  /\ Len(k_gains) = 7
  /\ Len(d_gains) = 8
  /\ k_gains_ # k_gains

\* C10: what an update leaves in the controller (the commands, the filtered
\* velocity, the motion goal, the start time, the gains) and what it returns do
\* not depend on what the bounded wait produced: every other outcome of the wait
\* would have left the same.
C10_PollNonInterference ==
  [][(lc = "active" /\ lc' = "active") =>
       \A wr \in WaitResults :
         LET e == update_effect(wr, q_', dq_', now')
         IN /\ e.ret = "OK"
            /\ update_return' = <<"OK">>
            /\ command_interfaces_' = e.commands
            /\ dq_filtered_' = e.dq_filtered
            /\ motion_generator_' = e.motion_generator
            /\ start_time_' = start_time_
            /\ k_gains_' = k_gains_
            /\ d_gains_' = d_gains_
            /\ q_goal_' = q_goal_]_vars

\* An update took a message with a position array of 7 or more entries, printed
\* it, and wrote a PD torque.
C10_Witness ==
  /\ tick_done
  /\ poll_log # <<>>
  /\ Len(poll_log[1]) >= 7
  /\ ~finished
  /\ ~all_commands_zero

\* C20 (as stated): every update, finished or not, leaves
\* filteredVelocity[i] = (1 - 0.99) * filteredVelocityPrev[i] + 0.99 * measured[i].
C20_FilterOnEveryTick ==
  [][(lc = "active" /\ lc' = "active") =>
       \A i \in 1..7 : 100 * dq_filtered_'[i] = dq_filtered_[i] + 99 * dq_'[i]]_vars

\* C20 (amended): an update that does not see finished leaves
\* filteredVelocity[i] = (1 - 0.99) * filteredVelocityPrev[i] + 0.99 * measured[i];
\* an update that sees finished leaves the filtered velocity as it was; a
\* successful on_configure sets it to zero, and nothing else changes it.
C20_FilterOnTrackingTicks ==
  /\ [][(lc = "active" /\ lc' = "active") =>
          IF finished'
          THEN dq_filtered_' = dq_filtered_
          ELSE \A i \in 1..7 : 100 * dq_filtered_'[i] = dq_filtered_[i] + 99 * dq_'[i]]_vars
  /\ [][(lc = "unconfigured" /\ lc' = "inactive") => dq_filtered_' = Zero7]_vars
  /\ [][(~(lc = "active" /\ lc' = "active") /\ ~(lc = "unconfigured" /\ lc' = "inactive")) =>
          dq_filtered_' = dq_filtered_]_vars

\* An update that saw finished left the filtered velocity of an earlier update
\* in place, the measured velocity being another.
C20_Witness ==
  /\ tick_done
  /\ finished
  /\ filter_steps > 0
  /\ dq_filtered_ # Zero7
  /\ dq_ # dq_filtered_
  /\ velocity_filter(dq_filtered_, dq_) # dq_filtered_

=============================================================================
